---- MODULE Spec2Model ----
(***************************************************************************)
(* Model of secp256k1_wrapper.c: secp256k1_wrapper_generate_keys and       *)
(* secp256k1_wrapper_derive_pubkey executed statement by statement by one  *)
(* caller that owns a 32-byte private-key buffer and a 65-byte public-key  *)
(* buffer.  The curve library (libsecp256k1) and the operating system's    *)
(* entropy calls are the environment: their results are chosen             *)
(* nondeterministically among the outcomes their interfaces allow.         *)
(***************************************************************************)
EXTENDS Integers, Sequences, FiniteSets, TLC

(* ------------------------------------------------------------------ *)
(* Bounds of the model                                                *)
(* ------------------------------------------------------------------ *)

\* API calls made in one behaviour.
MaxCalls == 3

\* Candidate draws of one generate_keys call (caps the do-while loop).
MaxDraws == 2

\* Largest size passed to a fill_random call run on its own.
MaxFill == 32

\* Threads that call generate_keys or derive_pubkey at the same time.
NumThreads == 2

(* ------------------------------------------------------------------ *)
(* Program constants                                                  *)
(* ------------------------------------------------------------------ *)

PRIVKEY_SIZE == 32

PUBKEY_COMPRESSION_SIZE == 33

PUBKEY_UNCOMPRESSION_SIZE == 65

\* A byte of an automatic array that was declared and not yet written.
Indeterminate == -1

(* ------------------------------------------------------------------ *)
(* Byte strings                                                       *)
(* ------------------------------------------------------------------ *)

Fill(byte, n) == [i \in 1..n |-> byte]

Zero32 == Fill(0, PRIVKEY_SIZE)

\* The scalar 1, big endian.
One32 == [i \in 1..PRIVKEY_SIZE |-> IF i = PRIVKEY_SIZE THEN 1 ELSE 0]

\* memset(privkey, 0x42, 32) and memset(privkey, 0xFF, 32) of the tests.
Key42 == Fill(66, PRIVKEY_SIZE)

KeyFF == Fill(255, PRIVKEY_SIZE)

\* The order n of the secp256k1 group, big endian.
GroupOrder ==
    Fill(255, 15) \o <<254>> \o
    <<186, 174, 220, 230, 175, 72, 160, 59, 191, 210, 94, 140, 208, 54, 65, 65>>

\* n - 1, the largest valid scalar.
OrderMinus1 == [GroupOrder EXCEPT ![PRIVKEY_SIZE] = 64]

\* a < b for big-endian byte strings of one length.
LessThan(a, b) ==
    \E i \in 1..Len(a) :
        /\ a[i] < b[i]
        /\ \A j \in 1..(i - 1) : a[j] = b[j]

\* The first n bytes of dst replaced by the first n bytes of src.
Overwrite(dst, src, n) ==
    [i \in 1..Len(dst) |-> IF i <= n THEN src[i] ELSE dst[i]]

Prefix(s, n) == SubSeq(s, 1, n)

\* A size_t of 64 bits, written as 8 bytes, big endian.
SIZE_BYTES == 8

\* An unsigned long of Windows has 32 bits.
ULONG_BYTES == 4

\* The size_t value n, for n below 65536.
Size(n) == [i \in 1..SIZE_BYTES |->
              IF i = SIZE_BYTES THEN n % 256
              ELSE IF i = SIZE_BYTES - 1 THEN n \div 256 ELSE 0]

\* ULONG_MAX of <limits.h> as a size_t: the low 32 bits set.
ULONG_MAX == [i \in 1..SIZE_BYTES |-> IF i > SIZE_BYTES - ULONG_BYTES THEN 255 ELSE 0]

\* 2^32 + n as a size_t, for n below 65536.
Above4G(n) == [Size(n) EXCEPT ![SIZE_BYTES - ULONG_BYTES] = 1]

\* The cast (ULONG)size: the low 32 bits kept.
ToUlong(size) == [i \in 1..SIZE_BYTES |-> IF i > SIZE_BYTES - ULONG_BYTES THEN size[i] ELSE 0]

\* The most getentropy delivers in one call.
GETENTROPY_MAX == 256

\* 32-byte strings the entropy source yields as private-key candidates.
SampleKeys == {GroupOrder, One32, OrderMinus1}

\* 32-byte strings the entropy source yields as randomization seeds.
SampleSeeds == {Key42}

\* Keys the caller stores in its private-key buffer before derive_pubkey.
CallerKeys == {KeyFF, Key42}

\* Byte counts a failing entropy call has delivered before it failed.
ShortLens == {0, 16}

\* Values of the int parameter `compressed` the caller passes.
CompressedArgs == {0, 1, 2}

(* ------------------------------------------------------------------ *)
(* SecretWipe                                                         *)
(* ------------------------------------------------------------------ *)

\* memset(p, 0, n) behind a compiler barrier.
secure_memzero(p, n) == [i \in 1..Len(p) |-> IF i <= n THEN 0 ELSE p[i]]

(* ------------------------------------------------------------------ *)
(* RandomSource: secp256k1_wrapper_fill_random, getrandom branch       *)
(* ------------------------------------------------------------------ *)

\* The results of fill_random(data, size): ret = 1 with all size bytes
\* written (getrandom returned size, or the /dev/urandom loop reached
\* off = size), or ret = 0 with the first n < size bytes written (a short
\* getrandom return, an error other than ENOSYS, a failed open, or a read
\* that failed after n bytes).
fill_random(data, size, samples) ==
    {[ret |-> 1, data |-> Overwrite(data, s, size)] : s \in samples}
    \cup
    {[ret |-> 0, data |-> Overwrite(data, s, n)] :
        s \in samples, n \in {m \in ShortLens : m < size}}

(* ------------------------------------------------------------------ *)
(* CurvePrimitive: libsecp256k1 at its interface                      *)
(* ------------------------------------------------------------------ *)

\* secp256k1_ec_seckey_verify: nonzero and below the group order.
seckey_verify(key) == key # Zero32 /\ LessThan(key, GroupOrder)

\* Stand-ins for the coordinates of key*G: injective in the key, and a
\* function of the key alone.
PointX(key) == [i \in 1..PRIVKEY_SIZE |-> (key[i] + 121) % 256]

PointY(key) == [i \in 1..PRIVKEY_SIZE |-> 255 - key[i]]

\* secp256k1_ec_pubkey_serialize: the wire form of the point of `key`.
Serialized(key, fl) ==
    IF fl = "SECP256K1_EC_COMPRESSED"
    THEN <<2 + (PointY(key)[PRIVKEY_SIZE] % 2)>> \o PointX(key)
    ELSE <<4>> \o PointX(key) \o PointY(key)

\* Serialization needs the output capacity *outputlen to hold the form.
SerializeFits(len, fl) ==
    len >= (IF fl = "SECP256K1_EC_COMPRESSED"
            THEN PUBKEY_COMPRESSION_SIZE ELSE PUBKEY_UNCOMPRESSION_SIZE)

\* secp256k1_ec_pubkey_serialize clears the output before it encodes, so a
\* failing call leaves the first len bytes zero.
SerializeFailed(out, len) == [i \in 1..Len(out) |-> IF i <= len THEN 0 ELSE out[i]]

NoContext == [state |-> "null", randomized |-> 0, destroyed |-> 0, misuse |-> FALSE]

\* secp256k1_context_create returned a context.
context_create == [NoContext EXCEPT !.state = "live"]

\* A CurvePrimitive operation invoked on context c.
context_use(c) == [c EXCEPT !.misuse = @ \/ c.state # "live"]

\* secp256k1_context_randomize succeeded on c.
context_randomize(c) == [context_use(c) EXCEPT !.randomized = @ + 1]

\* secp256k1_context_destroy(c).
context_destroy(c) == [c EXCEPT !.state = "destroyed", !.destroyed = @ + 1]

(* ------------------------------------------------------------------ *)
(* State                                                              *)
(* ------------------------------------------------------------------ *)

VARIABLES
    pc,             \* position of the caller / of the running call
    op,             \* the function running or last run
    privkey_ptr,    \* first argument: privkey_out (generate), privkey (derive)
    pubkey_out,     \* second argument
    compressed,     \* third argument
    pubkey_len,     \* local size_t pubkey_len
    flags,          \* local int flags
    ctx,            \* the context of the call
    randomize,      \* local unsigned char randomize[PRIVKEY_SIZE]
    privkey,        \* local unsigned char privkey[PRIVKEY_SIZE] of generate_keys
    pubkey,         \* local secp256k1_pubkey: the scalar whose point it holds
    ret,            \* the value returned, once pc = "done"
    path,           \* the return statement taken, once pc = "done"
    privbuf,        \* the caller's 32-byte private-key buffer
    pubbuf,         \* the caller's 65-byte public-key buffer
    live_contexts,  \* contexts created and not destroyed, process wide
    log,            \* the library and entropy calls of the call, in order
    draws,          \* candidate draws of the call so far
    drawn,          \* the candidates the entropy source delivered to the call
    calls,          \* API calls made so far
    priv_before,    \* privbuf when the call started
    pub_before,     \* pubbuf when the call started
    prev,           \* what the previous call was given and returned
    fill,           \* the frame of a secp256k1_wrapper_fill_random call run on its own
    thr,            \* per thread: its call, its caller's buffers, what it was given
    frames,         \* the storage of the calls' automatic variables, by slot
    heap,           \* the context objects the library has allocated
    plat            \* a fill_random call on a platform other than Linux

vars == <<pc, op, privkey_ptr, pubkey_out, compressed, pubkey_len, flags, ctx,
          randomize, privkey, pubkey, ret, path, privbuf, pubbuf,
          live_contexts, log, draws, drawn, calls, priv_before, pub_before, prev>>

locals == <<pubkey_len, flags, ctx, randomize, privkey, pubkey>>

caller == <<privbuf, pubbuf>>

frame == <<op, privkey_ptr, pubkey_out, compressed, calls, priv_before,
           pub_before, prev>>

\* The state that generate_keys, derive_pubkey and their caller leave alone.
outside == <<fill, thr, frames, heap, plat>>

\* The state of the calls made from several threads.
threaded == <<thr, frames, heap>>

allvars == <<vars, outside>>

Unwritten == Fill(Indeterminate, PRIVKEY_SIZE)

NoCall == [op |-> "none", compressed |-> 0, args_ok |-> FALSE, ret |-> 0,
           path |-> "none", key |-> <<>>, clean |-> TRUE]

Threads == 1..NumThreads

\* A thread that has made no call; its caller's buffers are zero-filled.
NoThread == [pc |-> "idle", op |-> "none", compressed |-> 0, ret |-> 0,
             path |-> "none", privbuf |-> Zero32,
             pubbuf |-> Fill(0, PUBKEY_UNCOMPRESSION_SIZE),
             priv_before |-> Zero32, hist |-> <<>>, fails |-> "none"]

\* The automatic variables of a call before any is assigned.
NoFrame == [pubkey_len |-> 0, flags |-> "unset", ctx |-> 0,
            randomize |-> Unwritten, privkey |-> Unwritten, pubkey |-> <<>>]

\* No fill_random call is running on another platform.
NoPlat == [pc |-> "idle", platform |-> "none", size |-> Fill(0, SIZE_BYTES),
           calls |-> <<>>, ret |-> 0]

\* No fill_random call is running on its own.
NoFill == [pc |-> "idle", size |-> 0, res |-> 0, errno |-> "none", fd |-> "none",
           off |-> 0, r |-> 0, filled |-> 0, ret |-> 0, path |-> "none",
           open_fds |-> 0, closes |-> 0]

Entry(o, r) == [op |-> o, r |-> r]

\* The library calls that fail only when the library malfunctions.
Malfunctions ==
    {Entry("context_create", 0), Entry("context_randomize", 0),
     Entry("pubkey_create", 0), Entry("pubkey_serialize", 0)}

Logged(e) == \E i \in 1..Len(log) : log[i] = e

NoMalfunction == \A i \in 1..Len(log) : log[i] \notin Malfunctions

\* What a finished call was given and returned: the key is the one
\* generate_keys produced or the one derive_pubkey was handed.
Summary ==
    [op |-> op, compressed |-> compressed,
     args_ok |-> (privkey_ptr # "NULL" /\ pubkey_out # "NULL"),
     ret |-> ret, path |-> path,
     key |-> IF op = "derive" THEN priv_before
             ELSE IF ret = 0 THEN privbuf ELSE <<>>,
     clean |-> NoMalfunction]

Init ==
    /\ pc = "idle"
    /\ op = "none"
    /\ privkey_ptr = "NULL"
    /\ pubkey_out = "NULL"
    /\ compressed = 0
    /\ pubkey_len = 0
    /\ flags = "unset"
    /\ ctx = NoContext
    /\ randomize = Unwritten
    /\ privkey = Unwritten
    /\ pubkey = <<>>
    /\ ret = 0
    /\ path = "none"
    /\ privbuf = Zero32
    /\ pubbuf = Fill(0, PUBKEY_UNCOMPRESSION_SIZE)
    /\ live_contexts = 0
    /\ log = <<>>
    /\ draws = 0
    /\ drawn = <<>>
    /\ calls = 0
    /\ priv_before = Zero32
    /\ pub_before = Fill(0, PUBKEY_UNCOMPRESSION_SIZE)
    /\ prev = NoCall
    /\ fill = NoFill
    /\ thr = [t \in Threads |-> NoThread]
    /\ frames = [t \in Threads |-> NoFrame]
    /\ heap = <<>>
    /\ plat = NoPlat

(* ------------------------------------------------------------------ *)
(* The caller                                                         *)
(* ------------------------------------------------------------------ *)

\* A new stack frame: the automatic variables hold nothing yet.
FreshFrame ==
    /\ pubkey_len' = 0
    /\ flags' = "unset"
    /\ ctx' = NoContext
    /\ randomize' = Unwritten
    /\ privkey' = Unwritten
    /\ pubkey' = <<>>
    /\ ret' = 0
    /\ path' = "none"
    /\ log' = <<>>
    /\ draws' = 0
    /\ drawn' = <<>>

Remember == prev' = IF pc = "done" THEN Summary ELSE prev

\* The caller fills its private-key buffer (memset in the tests).
CallerSetPrivkey ==
    /\ pc \in {"idle", "done"}
    /\ \E k \in CallerKeys :
        /\ k # privbuf
        /\ privbuf' = k
    /\ pc' = "idle"
    /\ Remember
    /\ FreshFrame
    /\ UNCHANGED <<op, privkey_ptr, pubkey_out, compressed, pubbuf,
                   live_contexts, calls, priv_before, pub_before>>
    /\ UNCHANGED outside

Call(f, start) ==
    /\ pc \in {"idle", "done"}
    /\ calls < MaxCalls
    /\ calls' = calls + 1
    /\ op' = f
    /\ pc' = start
    /\ \E p \in {"NULL", "privbuf"}, q \in {"NULL", "pubbuf"}, c \in CompressedArgs :
        /\ privkey_ptr' = p
        /\ pubkey_out' = q
        /\ compressed' = c
    /\ priv_before' = privbuf
    /\ pub_before' = pubbuf
    /\ Remember
    /\ FreshFrame
    /\ UNCHANGED <<privbuf, pubbuf, live_contexts>>
    /\ UNCHANGED outside

CallGenerate == Call("generate", "g_args")

CallDerive == Call("derive", "d_args")

(* ------------------------------------------------------------------ *)
(* secp256k1_wrapper_generate_keys                                    *)
(* ------------------------------------------------------------------ *)

\* Mutant of gen_args_invalid: the mode is not checked.
gen_args_invalid_nomode(p, q, c) == p = "NULL" \/ q = "NULL"

\* privkey_out == NULL || pubkey_out == NULL || (compressed != 0 && compressed != 1)
gen_args_invalid(p, q, c) == p = "NULL" \/ q = "NULL" \/ (c # 0 /\ c # 1)

\* Mutant of gen_pubkey_len: the capacity of the uncompressed form is
\* announced in both modes.
gen_pubkey_len_wide(c) == PUBKEY_UNCOMPRESSION_SIZE

gen_pubkey_len(c) ==
    IF c # 0 THEN PUBKEY_COMPRESSION_SIZE ELSE PUBKEY_UNCOMPRESSION_SIZE

gen_flags(c) ==
    IF c # 0 THEN "SECP256K1_EC_COMPRESSED" ELSE "SECP256K1_EC_UNCOMPRESSED"

\* Mutant of gen_returns: a serialization failure returns the
\* randomness code.
gen_returns_mixed(p) ==
    CASE p = "invalid_argument" -> -1
      [] p = "context_null" -> -2
      [] p = "seed_draw_failed" -> -3
      [] p = "randomize_failed" -> -2
      [] p = "candidate_draw_failed" -> -3
      [] p = "pubkey_create_failed" -> -5
      [] p = "serialize_failed" -> -3
      [] p = "success" -> 0

\* Mutant of gen_returns: a failure is reported after the key was copied
\* out.
gen_returns_late_failure(p) ==
    CASE p = "invalid_argument" -> -1
      [] p = "context_null" -> -2
      [] p = "seed_draw_failed" -> -3
      [] p = "randomize_failed" -> -2
      [] p = "candidate_draw_failed" -> -3
      [] p = "pubkey_create_failed" -> -5
      [] p = "serialize_failed" -> -5
      [] p = "success" -> -2

\* The value each return statement of generate_keys returns.
gen_returns(p) ==
    CASE p = "invalid_argument" -> -1
      [] p = "context_null" -> -2
      [] p = "seed_draw_failed" -> -3
      [] p = "randomize_failed" -> -2
      [] p = "candidate_draw_failed" -> -3
      [] p = "pubkey_create_failed" -> -5
      [] p = "serialize_failed" -> -5
      [] p = "success" -> 0

\* Mutant of gen_destroys: a failed candidate draw leaks the context.
gen_destroys_leak(p) ==
    p \in {"seed_draw_failed", "randomize_failed",
           "pubkey_create_failed", "serialize_failed", "success"}

\* The return statements preceded by secp256k1_context_destroy(ctx).
gen_destroys(p) ==
    p \in {"seed_draw_failed", "randomize_failed", "candidate_draw_failed",
           "pubkey_create_failed", "serialize_failed", "success"}

\* Mutant of gen_wipes_randomize: the failure return leaves the seed.
gen_wipes_randomize_never(p) == FALSE

\* The return statements preceded by secure_memzero(randomize, ...); on the
\* paths past the randomization the array was cleared right after it.
gen_wipes_randomize(p) == p = "randomize_failed"

\* The return statements preceded by secure_memzero(privkey, ...).
gen_wipes_privkey(p) ==
    p \in {"pubkey_create_failed", "serialize_failed", "success"}

\* Mutant of gen_copy_out: the working copy is wiped before it is copied.
gen_copy_out_wiped(key) == secure_memzero(Prefix(key, PRIVKEY_SIZE), PRIVKEY_SIZE)

\* Mutant of gen_copy_out: the top bit of the candidate is cleared on the
\* way out.
gen_copy_out_masked(key) ==
    [i \in 1..PRIVKEY_SIZE |-> IF i = 1 THEN key[i] % 128 ELSE key[i]]

\* memcpy(privkey_out, privkey, sizeof(privkey)): the bytes stored.
gen_copy_out(key) == Prefix(key, PRIVKEY_SIZE)

\* Mutant of gen_redraw: the loop is never left.
gen_redraw_always(key) == TRUE

\* Mutant of gen_redraw: the loop gives up after MaxDraws candidates.
gen_redraw_capped(key) == ~seckey_verify(key) /\ draws < MaxDraws

\* Mutant of gen_redraw: the loop body runs once, whatever the check says.
gen_redraw_never(key) == FALSE

\* The do-while condition: !secp256k1_ec_seckey_verify(ctx, privkey).
gen_redraw(key) == ~seckey_verify(key)

\* Return from generate_keys by return statement p, with context c, the
\* automatic arrays rnd and key, and the calls lg made so far.
GenLeave(p, c, rnd, key, lg) ==
    /\ pc' = "done"
    /\ path' = p
    /\ ret' = gen_returns(p)
    /\ randomize' = IF gen_wipes_randomize(p) THEN secure_memzero(rnd, PRIVKEY_SIZE) ELSE rnd
    /\ privkey' = IF gen_wipes_privkey(p) THEN secure_memzero(key, PRIVKEY_SIZE) ELSE key
    /\ ctx' = IF gen_destroys(p) THEN context_destroy(c) ELSE c
    /\ live_contexts' =
          IF gen_destroys(p) /\ c.state = "live" THEN live_contexts - 1 ELSE live_contexts
    /\ log' = LET wiped == IF gen_wipes_randomize(p)
                            THEN Append(lg, Entry("secure_memzero(randomize)", 1))
                            ELSE lg
              IN IF gen_destroys(p) THEN Append(wiped, Entry("context_destroy", 1)) ELSE wiped

GenCheckArgs ==
    /\ pc = "g_args"
    /\ IF gen_args_invalid(privkey_ptr, pubkey_out, compressed)
       THEN /\ GenLeave("invalid_argument", ctx, randomize, privkey, log)
            /\ UNCHANGED <<pubkey_len, flags>>
       ELSE /\ pubkey_len' = gen_pubkey_len(compressed)
            /\ flags' = gen_flags(compressed)
            /\ pc' = "g_create"
            /\ UNCHANGED <<ctx, randomize, privkey, ret, path, live_contexts, log>>
    /\ UNCHANGED <<pubkey, draws, drawn, caller, frame>>
    /\ UNCHANGED outside

GenCreateContext ==
    /\ pc = "g_create"
    /\ \E ok \in BOOLEAN :
        IF ok
        THEN /\ ctx' = context_create
             /\ live_contexts' = live_contexts + 1
             /\ log' = Append(log, Entry("context_create", 1))
             /\ pc' = "g_seed"
             /\ UNCHANGED <<randomize, privkey, ret, path>>
        ELSE GenLeave("context_null", ctx, randomize, privkey,
                      Append(log, Entry("context_create", 0)))
    /\ UNCHANGED <<pubkey_len, flags, pubkey, draws, drawn, caller, frame>>
    /\ UNCHANGED outside

GenDrawSeed ==
    /\ pc = "g_seed"
    /\ \E o \in fill_random(randomize, PRIVKEY_SIZE, SampleSeeds) :
        LET lg == Append(log, Entry("fill_random(randomize)", o.ret)) IN
        IF o.ret = 0
        THEN GenLeave("seed_draw_failed", ctx, o.data, privkey, lg)
        ELSE /\ randomize' = o.data
             /\ log' = lg
             /\ pc' = "g_randomize"
             /\ UNCHANGED <<ctx, privkey, ret, path, live_contexts>>
    /\ UNCHANGED <<pubkey_len, flags, pubkey, draws, drawn, caller, frame>>
    /\ UNCHANGED outside

GenRandomizeContext ==
    /\ pc = "g_randomize"
    /\ \E ok \in BOOLEAN :
        IF ok
        THEN /\ ctx' = context_randomize(ctx)
             /\ randomize' = secure_memzero(randomize, PRIVKEY_SIZE)
             /\ log' = log \o <<Entry("context_randomize", 1),
                                Entry("secure_memzero(randomize)", 1)>>
             /\ pc' = "g_draw"
             /\ UNCHANGED <<privkey, ret, path, live_contexts>>
        ELSE GenLeave("randomize_failed", context_use(ctx), randomize, privkey,
                      Append(log, Entry("context_randomize", 0)))
    /\ UNCHANGED <<pubkey_len, flags, pubkey, draws, drawn, caller, frame>>
    /\ UNCHANGED outside

\* One pass of the do-while body, draws capped at MaxDraws.  With `fair`
\* the entropy source is the one that eventually fails or delivers a valid
\* candidate: the last draw MaxDraws allows is not another invalid one.
GenDraw(fair) ==
    /\ pc = "g_draw"
    /\ draws < MaxDraws
    /\ \E o \in fill_random(privkey, PRIVKEY_SIZE, SampleKeys) :
        LET lg == Append(log, Entry("fill_random(privkey)", o.ret)) IN
        /\ (fair /\ o.ret = 1 /\ ~seckey_verify(o.data)) => draws + 1 < MaxDraws
        /\ draws' = draws + 1
        /\ drawn' = IF o.ret = 1 THEN Append(drawn, o.data) ELSE drawn
        /\ IF o.ret = 0
           THEN GenLeave("candidate_draw_failed", ctx, randomize, o.data, lg)
           ELSE /\ privkey' = o.data
                /\ log' = lg
                /\ pc' = "g_verify"
                /\ UNCHANGED <<ctx, randomize, ret, path, live_contexts>>
    /\ UNCHANGED <<pubkey_len, flags, pubkey, caller, frame>>
    /\ UNCHANGED outside

GenDrawCandidate == GenDraw(TRUE)

\* The same pass with an entropy source free to deliver invalid candidates
\* for as long as it likes.
GenDrawAnyCandidate == GenDraw(FALSE)

GenVerifyCandidate ==
    /\ pc = "g_verify"
    /\ ctx' = context_use(ctx)
    /\ log' = Append(log, Entry("seckey_verify", IF seckey_verify(privkey) THEN 1 ELSE 0))
    /\ pc' = IF gen_redraw(privkey) THEN "g_draw" ELSE "g_pubkey_create"
    /\ UNCHANGED <<pubkey_len, flags, randomize, privkey, pubkey, ret, path,
                   live_contexts, draws, drawn, caller, frame>>
    /\ UNCHANGED outside

GenCreatePubkey ==
    /\ pc = "g_pubkey_create"
    /\ \E ok \in BOOLEAN :
        IF ok /\ seckey_verify(privkey)
        THEN /\ pubkey' = privkey
             /\ ctx' = context_use(ctx)
             /\ log' = Append(log, Entry("pubkey_create", 1))
             /\ pc' = "g_serialize"
             /\ UNCHANGED <<randomize, privkey, ret, path, live_contexts>>
        ELSE /\ GenLeave("pubkey_create_failed", context_use(ctx), randomize, privkey,
                         Append(log, Entry("pubkey_create", 0)))
             /\ UNCHANGED pubkey
    /\ UNCHANGED <<pubkey_len, flags, draws, drawn, caller, frame>>
    /\ UNCHANGED outside

GenSerializePubkey ==
    /\ pc = "g_serialize"
    /\ \E ok \in BOOLEAN :
        IF ok /\ SerializeFits(pubkey_len, flags)
        THEN LET out == Serialized(pubkey, flags) IN
             /\ pubbuf' = Overwrite(pubbuf, out, Len(out))
             /\ pubkey_len' = Len(out)
             /\ ctx' = context_use(ctx)
             /\ log' = Append(log, Entry("pubkey_serialize", 1))
             /\ pc' = "g_copy"
             /\ UNCHANGED <<randomize, privkey, ret, path, live_contexts>>
        ELSE /\ pubbuf' = SerializeFailed(pubbuf, pubkey_len)
             /\ GenLeave("serialize_failed", context_use(ctx), randomize, privkey,
                         Append(log, Entry("pubkey_serialize", 0)))
             /\ UNCHANGED pubkey_len
    /\ UNCHANGED <<flags, pubkey, draws, drawn, privbuf, frame>>
    /\ UNCHANGED outside

GenCopyOut ==
    /\ pc = "g_copy"
    /\ privbuf' = gen_copy_out(privkey)
    /\ GenLeave("success", ctx, randomize, privkey, log)
    /\ UNCHANGED <<pubkey_len, flags, pubkey, draws, drawn, pubbuf, frame>>
    /\ UNCHANGED outside

(* ------------------------------------------------------------------ *)
(* secp256k1_wrapper_derive_pubkey                                    *)
(* ------------------------------------------------------------------ *)

\* Mutant of derive_args_invalid: every non-zero mode is let through.
derive_args_invalid_nomode(p, q, c) == p = "NULL" \/ q = "NULL"

\* privkey == NULL || pubkey_out == NULL || (compressed != 0 && compressed != 1)
derive_args_invalid(p, q, c) == p = "NULL" \/ q = "NULL" \/ (c # 0 /\ c # 1)

derive_pubkey_len(c) ==
    IF c # 0 THEN PUBKEY_COMPRESSION_SIZE ELSE PUBKEY_UNCOMPRESSION_SIZE

\* Mutant of derive_flags: the two serialization flags exchanged.
derive_flags_swapped(c) ==
    IF c # 0 THEN "SECP256K1_EC_UNCOMPRESSED" ELSE "SECP256K1_EC_COMPRESSED"

\* Mutant of derive_flags: flags is a static that still holds what the
\* previous call computed from its own mode.
derive_flags_stale(c) ==
    IF prev.op # "none" /\ prev.args_ok /\ prev.compressed \in {0, 1}
    THEN IF prev.compressed # 0
         THEN "SECP256K1_EC_COMPRESSED" ELSE "SECP256K1_EC_UNCOMPRESSED"
    ELSE IF c # 0 THEN "SECP256K1_EC_COMPRESSED" ELSE "SECP256K1_EC_UNCOMPRESSED"

derive_flags(c) ==
    IF c # 0 THEN "SECP256K1_EC_COMPRESSED" ELSE "SECP256K1_EC_UNCOMPRESSED"

\* The value each return statement of derive_pubkey returns.
derive_returns(p) ==
    CASE p = "invalid_argument" -> -1
      [] p = "context_null" -> -2
      [] p = "seckey_invalid" -> -5
      [] p = "pubkey_create_failed" -> -5
      [] p = "serialize_failed" -> -5
      [] p = "success" -> 0

\* Mutant of derive_destroys: the invalid-key return leaks the context.
derive_destroys_leak(p) ==
    p \in {"pubkey_create_failed", "serialize_failed", "success"}

\* The return statements preceded by secp256k1_context_destroy(ctx).
derive_destroys(p) ==
    p \in {"seckey_invalid", "pubkey_create_failed", "serialize_failed", "success"}

\* Mutant of derive_wipes_privkey: the failure returns wipe the key, as
\* those of generate_keys do.
derive_wipes_privkey_on_failure(p) ==
    p \in {"pubkey_create_failed", "serialize_failed"}

\* The return statements preceded by a write through privkey: none, the
\* parameter is const and the function holds no secure_memzero.
derive_wipes_privkey(p) == FALSE

\* Mutant of derive_rejects: only the all-zero key is rejected.
derive_rejects_zero_only(key) == key = Zero32

\* if (!secp256k1_ec_seckey_verify(ctx, privkey)) return: the key is rejected.
derive_rejects(key) == ~seckey_verify(key)

\* Return from derive_pubkey by return statement p, with context c and
\* the calls lg made so far.
DeriveLeave(p, c, lg) ==
    /\ pc' = "done"
    /\ path' = p
    /\ ret' = derive_returns(p)
    /\ privbuf' = IF derive_wipes_privkey(p) THEN secure_memzero(privbuf, PRIVKEY_SIZE) ELSE privbuf
    /\ ctx' = IF derive_destroys(p) THEN context_destroy(c) ELSE c
    /\ live_contexts' =
          IF derive_destroys(p) /\ c.state = "live" THEN live_contexts - 1 ELSE live_contexts
    /\ log' = IF derive_destroys(p) THEN Append(lg, Entry("context_destroy", 1)) ELSE lg

DeriveCheckArgs ==
    /\ pc = "d_args"
    /\ IF derive_args_invalid(privkey_ptr, pubkey_out, compressed)
       THEN /\ DeriveLeave("invalid_argument", ctx, log)
            /\ UNCHANGED <<pubkey_len, flags>>
       ELSE /\ pubkey_len' = derive_pubkey_len(compressed)
            /\ flags' = derive_flags(compressed)
            /\ pc' = "d_create"
            /\ UNCHANGED <<ctx, ret, path, privbuf, live_contexts, log>>
    /\ UNCHANGED <<randomize, privkey, pubkey, draws, drawn, pubbuf, frame>>
    /\ UNCHANGED outside

DeriveCreateContext ==
    /\ pc = "d_create"
    /\ \E ok \in BOOLEAN :
        IF ok
        THEN /\ ctx' = context_create
             /\ live_contexts' = live_contexts + 1
             /\ log' = Append(log, Entry("context_create", 1))
             /\ pc' = "d_verify"
             /\ UNCHANGED <<ret, path, privbuf>>
        ELSE DeriveLeave("context_null", ctx, Append(log, Entry("context_create", 0)))
    /\ UNCHANGED <<pubkey_len, flags, randomize, privkey, pubkey, draws, drawn, pubbuf, frame>>
    /\ UNCHANGED outside

DeriveVerifyKey ==
    /\ pc = "d_verify"
    /\ LET lg == Append(log, Entry("seckey_verify", IF seckey_verify(privbuf) THEN 1 ELSE 0)) IN
       IF derive_rejects(privbuf)
       THEN DeriveLeave("seckey_invalid", context_use(ctx), lg)
       ELSE /\ ctx' = context_use(ctx)
            /\ log' = lg
            /\ pc' = "d_pubkey_create"
            /\ UNCHANGED <<ret, path, privbuf, live_contexts>>
    /\ UNCHANGED <<pubkey_len, flags, randomize, privkey, pubkey, draws, drawn, pubbuf, frame>>
    /\ UNCHANGED outside

DeriveCreatePubkey ==
    /\ pc = "d_pubkey_create"
    /\ \E ok \in BOOLEAN :
        IF ok /\ seckey_verify(privbuf)
        THEN /\ pubkey' = privbuf
             /\ ctx' = context_use(ctx)
             /\ log' = Append(log, Entry("pubkey_create", 1))
             /\ pc' = "d_serialize"
             /\ UNCHANGED <<ret, path, privbuf, live_contexts>>
        ELSE /\ DeriveLeave("pubkey_create_failed", context_use(ctx),
                            Append(log, Entry("pubkey_create", 0)))
             /\ UNCHANGED pubkey
    /\ UNCHANGED <<pubkey_len, flags, randomize, privkey, draws, drawn, pubbuf, frame>>
    /\ UNCHANGED outside

DeriveSerializePubkey ==
    /\ pc = "d_serialize"
    /\ \E ok \in BOOLEAN :
        IF ok /\ SerializeFits(pubkey_len, flags)
        THEN LET out == Serialized(pubkey, flags) IN
             /\ pubbuf' = Overwrite(pubbuf, out, Len(out))
             /\ pubkey_len' = Len(out)
             /\ DeriveLeave("success", context_use(ctx),
                            Append(log, Entry("pubkey_serialize", 1)))
        ELSE /\ pubbuf' = SerializeFailed(pubbuf, pubkey_len)
             /\ DeriveLeave("serialize_failed", context_use(ctx),
                            Append(log, Entry("pubkey_serialize", 0)))
             /\ UNCHANGED pubkey_len
    /\ UNCHANGED <<flags, randomize, privkey, pubkey, draws, drawn, frame>>
    /\ UNCHANGED outside

(* ------------------------------------------------------------------ *)
(* secp256k1_wrapper_fill_random, getrandom branch, step by step      *)
(* ------------------------------------------------------------------ *)

\* Values of errno after a getrandom call that returned -1.
Errnos == {"ENOSYS", "EINTR", "EAGAIN"}

\* Mutant of fill_falls_back: every failure of getrandom leads to the device.
fill_falls_back_any_error(res, errno) == res = -1

\* res == -1 && errno == ENOSYS
fill_falls_back(res, errno) == res = -1 /\ errno = "ENOSYS"

\* Mutant of fill_primary_result: a short return is taken for success.
fill_primary_result_any(res, size) == IF res >= 0 THEN 1 ELSE 0

\* return (res >= 0 && (size_t)res == size) ? 1 : 0
fill_primary_result(res, size) == IF res >= 0 /\ res = size THEN 1 ELSE 0

\* while (off < size)
fill_loop_continues(off, size) == off < size

\* Mutant of fill_read_failed: end of file is not taken for a failure.
fill_read_failed_error_only(r) == r < 0

\* if (r <= 0)
fill_read_failed(r) == r <= 0

\* Mutant of fill_closes: the descriptor is closed only when the buffer
\* was filled.
fill_closes_filled_only(p) == p = "filled"

\* The return statements of fill_random preceded by close(fd).
fill_closes(p) == p \in {"read_failed", "filled"}

\* fill_random returns v by return statement p.
FillLeave(f, p, v) ==
    [f EXCEPT !.pc = "returned", !.path = p, !.ret = v,
              !.fd = IF fill_closes(p) THEN "closed" ELSE @,
              !.closes = IF fill_closes(p) THEN @ + 1 ELSE @,
              !.open_fds = IF fill_closes(p) THEN @ - 1 ELSE @]

\* A caller passes size to fill_random; the buffer holds no random byte yet.
\* The descriptors the process has open stay as they are.
FillCall ==
    /\ fill.pc \in {"idle", "returned"}
    /\ \E n \in 0..MaxFill :
        fill' = [NoFill EXCEPT !.pc = "getrandom", !.size = n,
                               !.open_fds = fill.open_fds]
    /\ UNCHANGED <<vars, threaded, plat>>

\* ssize_t res = getrandom(data, size, 0): -1 with errno set, or the
\* number of bytes stored, at most size, with errno left at whatever an
\* earlier call had put there.
FillGetrandom ==
    /\ fill.pc = "getrandom"
    /\ \E res \in -1..fill.size, e \in Errnos \cup {"none"} :
        /\ (res = -1) => (e \in Errnos)
        /\ fill' = [fill EXCEPT
                      !.res = res, !.errno = e,
                      !.filled = IF res > 0 THEN res ELSE 0,
                      !.pc = IF fill_falls_back(res, e) THEN "open" ELSE "primary"]
    /\ UNCHANGED <<vars, threaded, plat>>

\* The return of the primary path.
FillReturnPrimary ==
    /\ fill.pc = "primary"
    /\ fill' = FillLeave(fill, "primary", fill_primary_result(fill.res, fill.size))
    /\ UNCHANGED <<vars, threaded, plat>>

\* int fd = open("/dev/urandom", O_RDONLY); if (fd < 0) return 0;
FillOpen ==
    /\ fill.pc = "open"
    /\ \E ok \in BOOLEAN :
        fill' = IF ok
                THEN [fill EXCEPT !.fd = "open", !.open_fds = @ + 1, !.off = 0,
                                  !.pc = "loop"]
                ELSE FillLeave([fill EXCEPT !.fd = "failed"], "open_failed", 0)
    /\ UNCHANGED <<vars, threaded, plat>>

\* One pass of the while body: r = read(fd, data + off, size - off), -1 on
\* error, 0 at end of file, else the bytes stored, at most size - off.
FillRead ==
    /\ fill.pc = "loop"
    /\ fill_loop_continues(fill.off, fill.size)
    /\ \E r \in -1..(fill.size - fill.off) :
        LET f == [fill EXCEPT !.r = r] IN
        fill' = IF fill_read_failed(r)
                THEN FillLeave(f, "read_failed", 0)
                ELSE [f EXCEPT !.off = @ + r, !.filled = fill.off + r]
    /\ UNCHANGED <<vars, threaded, plat>>

\* The loop ends with off >= size: close(fd); return 1;
FillLoopExit ==
    /\ fill.pc = "loop"
    /\ ~fill_loop_continues(fill.off, fill.size)
    /\ fill' = FillLeave(fill, "filled", 1)
    /\ UNCHANGED <<vars, threaded, plat>>

FillNext ==
    \/ FillCall
    \/ FillGetrandom
    \/ FillReturnPrimary
    \/ FillOpen
    \/ FillRead
    \/ FillLoopExit

\* fill_random called on its own, any number of times.
FillSpec == Init /\ [][FillNext]_allvars

\* The loop of the fallback keeps running: read returns, and nothing in the
\* body waits for anything else.
FillFairSpec == FillSpec /\ WF_allvars(FillRead \/ FillLoopExit)

(* ------------------------------------------------------------------ *)
(* generate_keys and derive_pubkey called from several threads        *)
(* ------------------------------------------------------------------ *)

\* Each thread makes one call on buffers of its own.  The entropy source is
\* the one of GenDrawCandidate; thr[t].fails names the library call, if any,
\* that fails in the call of thread t although its arguments are good.

\* Mutant of frame_of: the variables are static, one copy for all calls.
frame_of_static(t) == 1

\* ctx, randomize, privkey, pubkey, pubkey_len and flags are automatic: every
\* call has its own, on the stack of its thread.
frame_of(t) == t

\* secp256k1_context_create by thread t: a new object.
NewContext(t) == [obj |-> context_create, owner |-> t, users |-> {}]

HeapUse(h, cid, t) ==
    [h EXCEPT ![cid].obj = context_use(@), ![cid].users = @ \cup {t}]

HeapRandomize(h, cid, t) ==
    [h EXCEPT ![cid].obj = context_randomize(@), ![cid].users = @ \cup {t}]

HeapDestroy(h, cid, t) ==
    [h EXCEPT ![cid].obj = context_destroy(@), ![cid].users = @ \cup {t}]

\* Thread t goes on to statement next with frame f, heap h and record me.
TStep(t, f, h, me, next) ==
    /\ frames' = [frames EXCEPT ![frame_of(t)] = f]
    /\ heap' = h
    /\ thr' = [thr EXCEPT ![t] = [me EXCEPT !.pc = next]]
    /\ UNCHANGED <<vars, fill, plat>>

\* Thread t returns by return statement p.
TLeave(t, f, h, me, p) ==
    LET g == me.op = "generate"
        wiped == IF g
                 THEN [f EXCEPT
                         !.randomize = IF gen_wipes_randomize(p)
                                       THEN secure_memzero(@, PRIVKEY_SIZE) ELSE @,
                         !.privkey = IF gen_wipes_privkey(p)
                                     THEN secure_memzero(@, PRIVKEY_SIZE) ELSE @]
                 ELSE f
        destroys == IF g THEN gen_destroys(p) ELSE derive_destroys(p)
    IN  /\ frames' = [frames EXCEPT ![frame_of(t)] = wiped]
        /\ heap' = IF destroys THEN HeapDestroy(h, f.ctx, t) ELSE h
        /\ thr' = [thr EXCEPT ![t] =
                     [me EXCEPT !.pc = "done", !.path = p,
                                !.ret = IF g THEN gen_returns(p) ELSE derive_returns(p)]]
        /\ UNCHANGED <<vars, fill, plat>>

LibraryFailures ==
    {"none", "context_create", "context_randomize", "pubkey_create", "pubkey_serialize"}

\* A thread calls one of the two functions with a mode and, for
\* derive_pubkey, a key in its buffer.
TCall(t) ==
    /\ thr[t].pc = "idle"
    /\ \E f \in {"generate", "derive"}, c \in CompressedArgs,
          k \in CallerKeys \cup {Zero32}, m \in LibraryFailures :
        /\ (f = "generate") <=> (k = Zero32)
        /\ (f = "derive") => m # "context_randomize"
        /\ thr' = [thr EXCEPT ![t] =
                     [NoThread EXCEPT !.pc = IF f = "generate" THEN "g_args" ELSE "d_args",
                                      !.op = f, !.compressed = c, !.fails = m,
                                      !.privbuf = k, !.priv_before = k]]
    /\ UNCHANGED <<frames, heap, vars, fill, plat>>

TGenCheckArgs(t) ==
    LET me == thr[t]  f == frames[frame_of(t)] IN
    /\ me.pc = "g_args"
    /\ IF gen_args_invalid("privbuf", "pubbuf", me.compressed)
       THEN TLeave(t, f, heap, me, "invalid_argument")
       ELSE TStep(t, [f EXCEPT !.pubkey_len = gen_pubkey_len(me.compressed),
                               !.flags = gen_flags(me.compressed)],
                  heap, me, "g_create")

TGenCreateContext(t) ==
    LET me == thr[t]  f == frames[frame_of(t)] IN
    /\ me.pc = "g_create"
    /\ IF me.fails = "context_create"
       THEN TLeave(t, [f EXCEPT !.ctx = 0], heap, me, "context_null")
       ELSE TStep(t, [f EXCEPT !.ctx = Len(heap) + 1], Append(heap, NewContext(t)),
                  me, "g_seed")

TGenDrawSeed(t) ==
    LET me == thr[t]  f == frames[frame_of(t)] IN
    /\ me.pc = "g_seed"
    /\ \E o \in fill_random(f.randomize, PRIVKEY_SIZE, SampleSeeds) :
        LET seen == [me EXCEPT !.hist = Append(@, [ret |-> o.ret,
                                   data |-> IF o.ret = 1 THEN o.data ELSE <<>>])]
            g == [f EXCEPT !.randomize = o.data]
        IN IF o.ret = 0
           THEN TLeave(t, g, heap, seen, "seed_draw_failed")
           ELSE TStep(t, g, heap, seen, "g_randomize")

TGenRandomizeContext(t) ==
    LET me == thr[t]  f == frames[frame_of(t)] IN
    /\ me.pc = "g_randomize"
    /\ IF me.fails = "context_randomize"
       THEN TLeave(t, f, HeapUse(heap, f.ctx, t), me, "randomize_failed")
       ELSE TStep(t, [f EXCEPT !.randomize = secure_memzero(@, PRIVKEY_SIZE)],
                  HeapRandomize(heap, f.ctx, t), me, "g_draw")

TGenDrawCandidate(t) ==
    LET me == thr[t]  f == frames[frame_of(t)]  n == Len(thr[t].hist) - 1 IN
    /\ me.pc = "g_draw"
    /\ n < MaxDraws
    /\ \E o \in fill_random(f.privkey, PRIVKEY_SIZE, SampleKeys) :
        LET seen == [me EXCEPT !.hist = Append(@, [ret |-> o.ret,
                                   data |-> IF o.ret = 1 THEN o.data ELSE <<>>])]
            g == [f EXCEPT !.privkey = o.data]
        IN /\ (o.ret = 1 /\ ~seckey_verify(o.data)) => n + 1 < MaxDraws
           /\ IF o.ret = 0
              THEN TLeave(t, g, heap, seen, "candidate_draw_failed")
              ELSE TStep(t, g, heap, seen, "g_verify")

TGenVerifyCandidate(t) ==
    LET me == thr[t]  f == frames[frame_of(t)] IN
    /\ me.pc = "g_verify"
    /\ TStep(t, f, HeapUse(heap, f.ctx, t), me,
             IF gen_redraw(f.privkey) THEN "g_draw" ELSE "g_pubkey_create")

TGenCreatePubkey(t) ==
    LET me == thr[t]  f == frames[frame_of(t)] IN
    /\ me.pc = "g_pubkey_create"
    /\ IF me.fails # "pubkey_create" /\ seckey_verify(f.privkey)
       THEN TStep(t, [f EXCEPT !.pubkey = f.privkey], HeapUse(heap, f.ctx, t),
                  me, "g_serialize")
       ELSE TLeave(t, f, HeapUse(heap, f.ctx, t), me, "pubkey_create_failed")

TGenSerializePubkey(t) ==
    LET me == thr[t]  f == frames[frame_of(t)] IN
    /\ me.pc = "g_serialize"
    /\ IF me.fails # "pubkey_serialize" /\ SerializeFits(f.pubkey_len, f.flags)
       THEN LET out == Serialized(f.pubkey, f.flags) IN
            TStep(t, [f EXCEPT !.pubkey_len = Len(out)], HeapUse(heap, f.ctx, t),
                  [me EXCEPT !.pubbuf = Overwrite(@, out, Len(out))], "g_copy")
       ELSE TLeave(t, f, HeapUse(heap, f.ctx, t),
                   [me EXCEPT !.pubbuf = SerializeFailed(@, f.pubkey_len)],
                   "serialize_failed")

TGenCopyOut(t) ==
    LET me == thr[t]  f == frames[frame_of(t)] IN
    /\ me.pc = "g_copy"
    /\ TLeave(t, f, heap, [me EXCEPT !.privbuf = gen_copy_out(f.privkey)], "success")

TDeriveCheckArgs(t) ==
    LET me == thr[t]  f == frames[frame_of(t)] IN
    /\ me.pc = "d_args"
    /\ IF derive_args_invalid("privbuf", "pubbuf", me.compressed)
       THEN TLeave(t, f, heap, me, "invalid_argument")
       ELSE TStep(t, [f EXCEPT !.pubkey_len = derive_pubkey_len(me.compressed),
                               !.flags = derive_flags(me.compressed)],
                  heap, me, "d_create")

TDeriveCreateContext(t) ==
    LET me == thr[t]  f == frames[frame_of(t)] IN
    /\ me.pc = "d_create"
    /\ IF me.fails = "context_create"
       THEN TLeave(t, [f EXCEPT !.ctx = 0], heap, me, "context_null")
       ELSE TStep(t, [f EXCEPT !.ctx = Len(heap) + 1], Append(heap, NewContext(t)),
                  me, "d_verify")

TDeriveVerifyKey(t) ==
    LET me == thr[t]  f == frames[frame_of(t)] IN
    /\ me.pc = "d_verify"
    /\ IF derive_rejects(me.privbuf)
       THEN TLeave(t, f, HeapUse(heap, f.ctx, t), me, "seckey_invalid")
       ELSE TStep(t, f, HeapUse(heap, f.ctx, t), me, "d_pubkey_create")

TDeriveCreatePubkey(t) ==
    LET me == thr[t]  f == frames[frame_of(t)] IN
    /\ me.pc = "d_pubkey_create"
    /\ IF me.fails # "pubkey_create" /\ seckey_verify(me.privbuf)
       THEN TStep(t, [f EXCEPT !.pubkey = me.privbuf], HeapUse(heap, f.ctx, t),
                  me, "d_serialize")
       ELSE TLeave(t, f, HeapUse(heap, f.ctx, t), me, "pubkey_create_failed")

TDeriveSerializePubkey(t) ==
    LET me == thr[t]  f == frames[frame_of(t)] IN
    /\ me.pc = "d_serialize"
    /\ IF me.fails # "pubkey_serialize" /\ SerializeFits(f.pubkey_len, f.flags)
       THEN LET out == Serialized(f.pubkey, f.flags) IN
            TLeave(t, [f EXCEPT !.pubkey_len = Len(out)], HeapUse(heap, f.ctx, t),
                   [me EXCEPT !.pubbuf = Overwrite(@, out, Len(out))], "success")
       ELSE TLeave(t, f, HeapUse(heap, f.ctx, t),
                   [me EXCEPT !.pubbuf = SerializeFailed(@, f.pubkey_len)],
                   "serialize_failed")

ThreadNext ==
    \E t \in Threads :
        \/ TCall(t)
        \/ TGenCheckArgs(t)
        \/ TGenCreateContext(t)
        \/ TGenDrawSeed(t)
        \/ TGenRandomizeContext(t)
        \/ TGenDrawCandidate(t)
        \/ TGenVerifyCandidate(t)
        \/ TGenCreatePubkey(t)
        \/ TGenSerializePubkey(t)
        \/ TGenCopyOut(t)
        \/ TDeriveCheckArgs(t)
        \/ TDeriveCreateContext(t)
        \/ TDeriveVerifyKey(t)
        \/ TDeriveCreatePubkey(t)
        \/ TDeriveSerializePubkey(t)

\* The threads' calls interleaved statement by statement.
ThreadSpec == Init /\ [][ThreadNext]_allvars

\* The return statement a generate_keys call run alone ends at, and the
\* candidate it has accepted by then, from the entropy h and the failing
\* library call m; candidates are h[2], h[3], ...
RECURSIVE GenLoopAlone(_, _, _)
GenLoopAlone(h, m, i) ==
    IF i > Len(h) \/ h[i].ret = 0
    THEN [path |-> "candidate_draw_failed", key |-> <<>>]
    ELSE IF gen_redraw(h[i].data)
         THEN GenLoopAlone(h, m, i + 1)
         ELSE [path |-> CASE m = "pubkey_create" -> "pubkey_create_failed"
                          [] m = "pubkey_serialize" -> "serialize_failed"
                          [] OTHER -> "success",
               key |-> h[i].data]

GenAlone(c, h, m) ==
    IF gen_args_invalid("privbuf", "pubbuf", c)
    THEN [path |-> "invalid_argument", key |-> <<>>]
    ELSE IF m = "context_create" THEN [path |-> "context_null", key |-> <<>>]
    ELSE IF h = <<>> \/ h[1].ret = 0 THEN [path |-> "seed_draw_failed", key |-> <<>>]
    ELSE IF m = "context_randomize" THEN [path |-> "randomize_failed", key |-> <<>>]
    ELSE GenLoopAlone(h, m, 2)

DeriveAlone(c, key, m) ==
    [path |-> IF derive_args_invalid("privbuf", "pubbuf", c) THEN "invalid_argument"
              ELSE IF m = "context_create" THEN "context_null"
              ELSE IF derive_rejects(key) THEN "seckey_invalid"
              ELSE IF m = "pubkey_create" THEN "pubkey_create_failed"
              ELSE IF m = "pubkey_serialize" THEN "serialize_failed"
              ELSE "success",
     key |-> key]

\* What a call returns and leaves in its caller's buffers when nothing else
\* runs: a function of its arguments, of the entropy it is handed and of
\* the library's failures.  The buffers start as NoThread has them.
RunAlone(f, c, key, h, m) ==
    LET end == IF f = "generate" THEN GenAlone(c, h, m) ELSE DeriveAlone(c, key, m)
        fl == IF f = "generate" THEN gen_flags(c) ELSE derive_flags(c)
        out == Serialized(end.key, fl)
    IN  [ret |-> IF f = "generate" THEN gen_returns(end.path) ELSE derive_returns(end.path),
         privbuf |-> IF f = "generate" /\ end.path = "success"
                     THEN gen_copy_out(end.key) ELSE key,
         pubbuf |-> IF end.path = "success"
                    THEN Overwrite(NoThread.pubbuf, out, Len(out))
                    ELSE NoThread.pubbuf]

(* ------------------------------------------------------------------ *)
(* secp256k1_wrapper_fill_random, the Windows, Apple and OpenBSD      *)
(* branches                                                           *)
(* ------------------------------------------------------------------ *)

\* The builds: _WIN32; __APPLE__ without and with USE_SECURITY_RNG (both
\* with __MAC_10_12); __OpenBSD__.
Platforms == {"windows", "apple", "apple_security", "openbsd"}

\* Request sizes: small ones, the ones around the getentropy limit, and
\* the ones around and beyond ULONG_MAX.
PlatformSizes ==
    {Size(0), Size(1), Size(PRIVKEY_SIZE), Size(GETENTROPY_MAX - 1),
     Size(GETENTROPY_MAX), Size(GETENTROPY_MAX + 1), Size(1024),
     [ULONG_MAX EXCEPT ![SIZE_BYTES] = 254], ULONG_MAX,
     Above4G(0), Above4G(PRIVKEY_SIZE), Above4G(GETENTROPY_MAX),
     Fill(255, SIZE_BYTES)}

\* Mutant of win_too_large: the size is not checked before the cast.
win_too_large_unchecked(size) == FALSE

\* if (size > ULONG_MAX) return 0;
win_too_large(size) == LessThan(ULONG_MAX, size)

\* The length BCryptGenRandom is given: (ULONG)size.
win_length(size) == ToUlong(size)

\* size <= 256
getentropy_fits(size) == ~LessThan(Size(GETENTROPY_MAX), size)

\* The platform call fn was made with length len.
Made(fn, len) == [fn |-> fn, len |-> len]

PlatReturn(v) == [plat EXCEPT !.pc = "returned", !.ret = v]

\* fill_random is called with a size on one of the builds.
PlatCall ==
    /\ plat.pc \in {"idle", "returned"}
    /\ \E b \in Platforms, n \in PlatformSizes :
        plat' = [NoPlat EXCEPT
                   !.platform = b, !.size = n,
                   !.pc = CASE b = "windows" -> "bcrypt"
                            [] b = "apple" -> "ccrandom"
                            [] b = "apple_security" -> "secrandom"
                            [] b = "openbsd" -> "getentropy"]
    /\ UNCHANGED <<vars, fill, threaded>>

\* The Windows branch.
PlatBCryptGenRandom ==
    /\ plat.pc = "bcrypt"
    /\ IF win_too_large(plat.size)
       THEN plat' = PlatReturn(0)
       ELSE \E ok \in BOOLEAN :
              plat' = [PlatReturn(IF ok THEN 1 ELSE 0) EXCEPT
                         !.calls = Append(@, Made("BCryptGenRandom", win_length(plat.size)))]
    /\ UNCHANGED <<vars, fill, threaded>>

\* if (SecRandomCopyBytes(kSecRandomDefault, size, data) == errSecSuccess) return 1;
PlatSecRandom ==
    /\ plat.pc = "secrandom"
    /\ \E ok \in BOOLEAN :
        plat' = [(IF ok THEN PlatReturn(1) ELSE [plat EXCEPT !.pc = "ccrandom"]) EXCEPT
                   !.calls = Append(@, Made("SecRandomCopyBytes", plat.size))]
    /\ UNCHANGED <<vars, fill, threaded>>

\* if (CCRandomGenerateBytes(data, size) == kCCSuccess) return 1;
PlatCCRandom ==
    /\ plat.pc = "ccrandom"
    /\ \E ok \in BOOLEAN :
        plat' = [(IF ok THEN PlatReturn(1) ELSE [plat EXCEPT !.pc = "getentropy"]) EXCEPT
                   !.calls = Append(@, Made("CCRandomGenerateBytes", plat.size))]
    /\ UNCHANGED <<vars, fill, threaded>>

\* if (size <= 256 && getentropy(data, size) == 0) return 1; return 0;
\* the last resort of the Apple branch and the whole OpenBSD branch.
PlatGetentropy ==
    /\ plat.pc = "getentropy"
    /\ IF getentropy_fits(plat.size)
       THEN \E ok \in BOOLEAN :
              plat' = [PlatReturn(IF ok THEN 1 ELSE 0) EXCEPT
                         !.calls = Append(@, Made("getentropy", plat.size))]
       ELSE plat' = PlatReturn(0)
    /\ UNCHANGED <<vars, fill, threaded>>

PlatNext ==
    \/ PlatCall
    \/ PlatBCryptGenRandom
    \/ PlatSecRandom
    \/ PlatCCRandom
    \/ PlatGetentropy

\* fill_random called on its own on the builds other than Linux.
PlatSpec == Init /\ [][PlatNext]_allvars

(* ------------------------------------------------------------------ *)
(* Specification                                                      *)
(* ------------------------------------------------------------------ *)

Next ==
    \/ CallerSetPrivkey
    \/ CallGenerate
    \/ CallDerive
    \/ GenCheckArgs
    \/ GenCreateContext
    \/ GenDrawSeed
    \/ GenRandomizeContext
    \/ GenDrawCandidate
    \/ GenVerifyCandidate
    \/ GenCreatePubkey
    \/ GenSerializePubkey
    \/ GenCopyOut
    \/ DeriveCheckArgs
    \/ DeriveCreateContext
    \/ DeriveVerifyKey
    \/ DeriveCreatePubkey
    \/ DeriveSerializePubkey

Spec == Init /\ [][Next]_allvars

\* The steps of a running generate_keys call.
GenStep ==
    \/ GenCheckArgs
    \/ GenCreateContext
    \/ GenDrawSeed
    \/ GenRandomizeContext
    \/ GenDrawCandidate
    \/ GenVerifyCandidate
    \/ GenCreatePubkey
    \/ GenSerializePubkey
    \/ GenCopyOut

\* A call that has started keeps running: generate_keys is sequential code
\* and no step of it waits for anything.
FairSpec == Spec /\ WF_allvars(GenStep)

NextAnyDraw ==
    \/ CallerSetPrivkey
    \/ CallGenerate
    \/ CallDerive
    \/ GenCheckArgs
    \/ GenCreateContext
    \/ GenDrawSeed
    \/ GenRandomizeContext
    \/ GenDrawAnyCandidate
    \/ GenVerifyCandidate
    \/ GenCreatePubkey
    \/ GenSerializePubkey
    \/ GenCopyOut
    \/ DeriveCheckArgs
    \/ DeriveCreateContext
    \/ DeriveVerifyKey
    \/ DeriveCreatePubkey
    \/ DeriveSerializePubkey

\* The calls with an entropy source under no fairness assumption.
SpecAnyDraw == Init /\ [][NextAnyDraw]_allvars

(* ------------------------------------------------------------------ *)
(* Properties                                                         *)
(* ------------------------------------------------------------------ *)

Returned(f) == pc = "done" /\ op = f

ArgsOk == privkey_ptr # "NULL" /\ pubkey_out # "NULL" /\ compressed \in {0, 1}

ModeLen == IF compressed = 1 THEN PUBKEY_COMPRESSION_SIZE ELSE PUBKEY_UNCOMPRESSION_SIZE

Fills == {"fill_random(randomize)", "fill_random(privkey)"}

\* C1: whenever generate_keys returns 0, the 32 bytes it stored through
\* privkey_out pass the curve validity check, whatever candidates the
\* entropy source yielded before the accepted one.
C1_GeneratedKeyValid ==
    (Returned("generate") /\ ret = 0) => seckey_verify(privbuf)

\* generate_keys returned 0 after it had rejected a candidate.
C1_Witness ==
    /\ Returned("generate")
    /\ ret = 0
    /\ Logged(Entry("seckey_verify", 0))
    /\ seckey_verify(privbuf)

\* C2: derive_pubkey on the key a successful generate_keys stored, with the
\* mode of that generation, returns 0 and writes the public key that
\* generate_keys wrote, provided the curve library does not malfunction
\* during the derivation.
C2_RoundTrip ==
    ( /\ Returned("derive")
      /\ ArgsOk
      /\ prev.op = "generate"
      /\ prev.ret = 0
      /\ prev.compressed = compressed
      /\ prev.key = priv_before
      /\ NoMalfunction )
    => /\ ret = 0
       /\ Prefix(pubbuf, ModeLen) = Prefix(pub_before, ModeLen)

\* An uncompressed round trip took place.
C2_Witness ==
    /\ Returned("derive")
    /\ ArgsOk
    /\ prev.op = "generate"
    /\ prev.ret = 0
    /\ prev.compressed = compressed
    /\ prev.key = priv_before
    /\ compressed = 0
    /\ ret = 0
    /\ pubbuf[1] = 4
    /\ pubbuf = pub_before

\* C3: when generate_keys returns, by whichever return statement, the
\* seed array and the candidate array are all zero if a draw filled them
\* during the call.
C3_SecretsWiped ==
    Returned("generate") =>
        /\ Logged(Entry("fill_random(randomize)", 1)) => randomize = Zero32
        /\ Logged(Entry("fill_random(privkey)", 1)) => privkey = Zero32

\* C4: a context that was created is destroyed exactly once before the call
\* returns, no library operation is invoked on a destroyed context, and
\* between calls no context is live.
C4_ContextBracketed ==
    /\ ~ctx.misuse
    /\ ctx.destroyed <= 1
    /\ live_contexts = (IF ctx.state = "live" THEN 1 ELSE 0)
    /\ \A i \in 1..Len(log) : log[i].op = "context_destroy" => i = Len(log)
    /\ pc \in {"idle", "done"} =>
          /\ live_contexts = 0
          /\ Logged(Entry("context_create", 1)) => ctx.destroyed = 1

\* The third call returned by the invalid-key return of derive_pubkey with
\* its context destroyed.
C4_Witness ==
    /\ Returned("derive")
    /\ calls = 3
    /\ path = "seckey_invalid"
    /\ ctx.state = "destroyed"
    /\ ctx.destroyed = 1
    /\ live_contexts = 0

\* C5: a call with a null buffer argument or a mode other than 0 and 1
\* returns -1 having created no context, drawn no randomness and written
\* no caller buffer.
C5_InvalidArgument ==
    (pc # "idle" /\ op # "none" /\ ~ArgsOk) =>
        /\ pc \in {"g_args", "d_args", "done"}
        /\ log = <<>>
        /\ ctx = NoContext
        /\ live_contexts = 0
        /\ privbuf = priv_before
        /\ pubbuf = pub_before
        /\ pc = "done" => ret = -1

\* generate_keys was called with mode 2 and valid buffers, and returned.
C5_Witness ==
    /\ Returned("generate")
    /\ privkey_ptr # "NULL"
    /\ pubkey_out # "NULL"
    /\ compressed = 2
    /\ ret = -1

\* C6: derive_pubkey given valid arguments and a key that fails the validity
\* check returns the invalid-key code -5 right after the check, once its
\* context exists: no derivation, no serialization, pubkey_out not written,
\* the context destroyed.
C6_InvalidKeyRejected ==
    ( /\ Returned("derive")
      /\ ArgsOk
      /\ ~seckey_verify(priv_before)
      /\ Logged(Entry("context_create", 1)) )
    => /\ ret = -5
       /\ path = "seckey_invalid"
       /\ log = <<Entry("context_create", 1), Entry("seckey_verify", 0),
                  Entry("context_destroy", 1)>>
       /\ pubbuf = pub_before
       /\ ctx.state = "destroyed"
       /\ live_contexts = 0

\* derive_pubkey rejected a key not below the group order.
C6_Witness ==
    /\ Returned("derive")
    /\ ArgsOk
    /\ priv_before = KeyFF
    /\ ret = -5
    /\ path = "seckey_invalid"

KeyFailures == {"seckey_invalid", "pubkey_create_failed", "serialize_failed"}

\* C7 as stated: an invalid key, a derivation failure and a serialization
\* failure return pairwise different codes.
C7_CodesDistinct ==
    ( /\ pc = "done"
      /\ path \in KeyFailures
      /\ prev.path \in KeyFailures
      /\ prev.path # path )
    => ret # prev.ret

\* C7 amended: an invalid key, a derivation failure and a serialization
\* failure all return -5 and nothing else returns -5; -1, -2, -3 and 0 each
\* name their own group of return statements.
C7_SharedCode ==
    pc = "done" =>
        /\ ret = -5 <=> path \in KeyFailures
        /\ ret = -1 <=> path = "invalid_argument"
        /\ ret = -2 <=> path \in {"context_null", "randomize_failed"}
        /\ ret = -3 <=> path \in {"seed_draw_failed", "candidate_draw_failed"}
        /\ ret = 0 <=> path = "success"

\* A serialization failure of generate_keys returned the code an invalid
\* key had returned from derive_pubkey.
C7_Witness ==
    /\ Returned("generate")
    /\ path = "serialize_failed"
    /\ prev.op = "derive"
    /\ prev.path = "seckey_invalid"
    /\ ret = prev.ret

\* C8: derive_pubkey never draws randomness, and a run on the key and mode
\* of the run before it returns the same code and leaves the same bytes in
\* pubkey_out (the library not malfunctioning in either run).
C8_DeriveDeterministic ==
    /\ op = "derive" => \A i \in 1..Len(log) : log[i].op \notin Fills
    /\ ( /\ Returned("derive")
         /\ prev.op = "derive"
         /\ prev.key = priv_before
         /\ prev.compressed = compressed
         /\ prev.args_ok = (privkey_ptr # "NULL" /\ pubkey_out # "NULL")
         /\ prev.clean
         /\ NoMalfunction )
       => /\ ret = prev.ret
          /\ pubbuf = pub_before

\* Two successive runs of derive_pubkey on one valid key and mode, the
\* first of them after a generate_keys call.
C8_Witness ==
    /\ Returned("derive")
    /\ calls = 3
    /\ ArgsOk
    /\ prev.op = "derive"
    /\ prev.key = priv_before
    /\ prev.compressed = compressed
    /\ prev.ret = 0
    /\ ret = 0
    /\ pubbuf = pub_before

\* C9: derive_pubkey leaves the caller's private-key buffer as it found it,
\* at every step and on every return.
C9_PrivkeyUntouched ==
    (op = "derive" /\ pc # "idle") => privbuf = priv_before

\* derive_pubkey failed in serialization and the caller's key is intact.
C9_Witness ==
    /\ Returned("derive")
    /\ path = "serialize_failed"
    /\ privbuf = Key42
    /\ priv_before = Key42

\* C10: once a draw of generate_keys has failed, the call has returned -3
\* with its context destroyed, and the failed draw is followed by nothing
\* but the destruction of the context.
C10_RandomnessFailed ==
    \A i \in 1..Len(log) :
        (op = "generate" /\ log[i].op \in Fills /\ log[i].r = 0) =>
            /\ pc = "done"
            /\ ret = -3
            /\ ctx.state = "destroyed"
            /\ ctx.destroyed = 1
            /\ live_contexts = 0
            /\ Len(log) = i + 1
            /\ log[i + 1] = Entry("context_destroy", 1)

\* A candidate draw failed after a candidate had been rejected.
C10_Witness ==
    /\ Returned("generate")
    /\ path = "candidate_draw_failed"
    /\ Logged(Entry("seckey_verify", 0))
    /\ ret = -3

\* C11: fill_random returns 1 only when all size bytes were stored by the
\* entropy source; a primary call that stored fewer than size bytes or
\* failed with an error other than ENOSYS makes it return 0.
C11_FillComplete ==
    fill.pc = "returned" =>
        /\ fill.ret = 1 => fill.filled = fill.size
        /\ (fill.res >= 0 /\ fill.res < fill.size) => fill.ret = 0
        /\ (fill.res = -1 /\ fill.errno # "ENOSYS") => fill.ret = 0

\* A short primary return made fill_random return 0.
C11_Witness ==
    /\ fill.pc = "returned"
    /\ fill.size = PRIVKEY_SIZE
    /\ fill.res = 16
    /\ fill.ret = 0

Serializing == pc \in {"g_serialize", "d_serialize"}

\* C12: in both operations mode compressed asks the serializer for the
\* compressed form with a 33-byte capacity and the result begins with 0x02
\* or 0x03; mode uncompressed asks for the uncompressed form with a 65-byte
\* capacity and the result begins with 0x04; the two are never mixed.
C12_ModeSelectsForm ==
    /\ Serializing =>
          /\ compressed \in {0, 1}
          /\ compressed = 1 =>
                /\ flags = "SECP256K1_EC_COMPRESSED"
                /\ pubkey_len = PUBKEY_COMPRESSION_SIZE
          /\ compressed = 0 =>
                /\ flags = "SECP256K1_EC_UNCOMPRESSED"
                /\ pubkey_len = PUBKEY_UNCOMPRESSION_SIZE
    /\ (pc = "done" /\ ret = 0) =>
          /\ compressed = 1 =>
                /\ pubbuf[1] \in {2, 3}
                /\ pubkey_len = PUBKEY_COMPRESSION_SIZE
                /\ \A i \in (PUBKEY_COMPRESSION_SIZE + 1)..PUBKEY_UNCOMPRESSION_SIZE :
                      pubbuf[i] = pub_before[i]
          /\ compressed = 0 =>
                /\ pubbuf[1] = 4
                /\ pubkey_len = PUBKEY_UNCOMPRESSION_SIZE

\* derive_pubkey wrote a compressed key over an uncompressed one that
\* generate_keys had stored.
C12_Witness ==
    /\ Returned("derive")
    /\ ret = 0
    /\ compressed = 1
    /\ pubbuf[1] \in {2, 3}
    /\ pubbuf[PUBKEY_UNCOMPRESSION_SIZE] # 0
    /\ prev.op = "generate"
    /\ prev.ret = 0
    /\ prev.compressed = 0

BuffersGiven == privkey_ptr # "NULL" /\ pubkey_out # "NULL"

ContextUses == {"seckey_verify", "pubkey_create", "pubkey_serialize"}

\* C15: in generate_keys and in derive_pubkey every use of the context for
\* key validation, derivation or serialization comes after exactly one
\* successful randomization of that context.
C15_RandomizedBeforeUse ==
    \A i \in 1..Len(log) :
        log[i].op \in ContextUses =>
            /\ Cardinality({j \in 1..(i - 1) : log[j].op = "context_randomize"}) = 1
            /\ \E j \in 1..(i - 1) : log[j] = Entry("context_randomize", 1)

SeedWipe == Entry("secure_memzero(randomize)", 1)

\* C16: in generate_keys the seed buffer is zeroed right after the
\* context-randomization step on both outcomes: after a failed
\* randomization the wipe comes before the context is destroyed and -2 is
\* returned; after a successful one it comes before the first candidate
\* draw, and the buffer stays zero from then on.
C16_SeedWipedAfterRandomize ==
    \A i \in 1..Len(log) :
        log[i].op = "context_randomize" =>
            /\ op = "generate"
            /\ Len(log) > i
            /\ log[i + 1] = SeedWipe
            /\ randomize = Zero32
            /\ log[i].r = 0 =>
                  /\ pc = "done"
                  /\ ret = -2
                  /\ log = SubSeq(log, 1, i + 1) \o <<Entry("context_destroy", 1)>>
            /\ log[i].r = 1 =>
                  \A j \in 1..i : log[j].op # "fill_random(privkey)"
            /\ (log[i].r = 1 /\ Len(log) > i + 1) =>
                  log[i + 2].op = "fill_random(privkey)"

\* The randomization failed on a seed that had been drawn, and -2 was
\* returned.
C16_Witness ==
    /\ Returned("generate")
    /\ ret = -2
    /\ Logged(Entry("fill_random(randomize)", 1))
    /\ Logged(Entry("context_randomize", 0))
    /\ Logged(SeedWipe)
    /\ randomize = Zero32

\* C17: when generate_keys returns 0 the 32 bytes stored through privkey_out
\* are exactly the last candidate the entropy source delivered; that
\* candidate is the first of the call's draw sequence to pass the validity
\* check, and every earlier one failed it and was discarded unchanged.
C17_FirstValidCandidate ==
    /\ (Returned("generate") /\ ret = 0) =>
          /\ drawn # <<>>
          /\ privbuf = drawn[Len(drawn)]
          /\ seckey_verify(drawn[Len(drawn)])
          /\ \A i \in 1..(Len(drawn) - 1) : ~seckey_verify(drawn[i])
    /\ (op = "generate" /\ pc = "g_verify") =>
          /\ drawn # <<>>
          /\ privkey = drawn[Len(drawn)]
          /\ \A i \in 1..(Len(drawn) - 1) : ~seckey_verify(drawn[i])
    /\ (op = "generate" /\ pc \notin {"idle", "done"}) => privbuf = priv_before

\* generate_keys returned the second candidate after it had rejected the
\* first, the group order.
C17_Witness ==
    /\ Returned("generate")
    /\ ret = 0
    /\ Len(drawn) = 2
    /\ drawn[1] = GroupOrder
    /\ privbuf = OrderMinus1

\* The calls that may still follow a failed step: the wipe and the
\* destruction of the context.
Cleanup == {"secure_memzero(randomize)", "context_destroy"}

\* A failed step that ends the call; a rejected candidate in generate_keys
\* only restarts the draw.
Failing(e) == e.r = 0 /\ ~(op = "generate" /\ e.op = "seckey_verify")

\* C18: both operations take their steps in the order context, (randomness,
\* generate_keys only), validation, derivation, serialization: the key is
\* derived right after the validation that accepted it, in the same call,
\* the point is serialized right after its successful derivation, and after
\* the first failing step nothing runs but the cleanup.
C18_StepOrder ==
    /\ \A i \in 1..Len(log) :
          /\ log[i].op = "context_create" => i = 1
          /\ log[i].op \in Fills \cup {"context_randomize"} =>
                /\ op = "generate"
                /\ log[1] = Entry("context_create", 1)
          /\ log[i].op = "seckey_verify" =>
                /\ i > 1
                /\ log[i - 1] = IF op = "generate"
                                THEN Entry("fill_random(privkey)", 1)
                                ELSE Entry("context_create", 1)
          /\ log[i].op = "pubkey_create" =>
                /\ i > 1
                /\ log[i - 1] = Entry("seckey_verify", 1)
          /\ log[i].op = "pubkey_serialize" =>
                /\ i > 1
                /\ log[i - 1] = Entry("pubkey_create", 1)
          /\ Failing(log[i]) =>
                /\ pc = "done"
                /\ ret < 0
                /\ \A j \in (i + 1)..Len(log) : log[j].op \in Cleanup
    /\ pc \in {"g_pubkey_create", "g_serialize", "g_copy"} => seckey_verify(privkey)
    /\ pc \in {"d_pubkey_create", "d_serialize"} => seckey_verify(privbuf)
    /\ (pc = "done" /\ ret = 0) =>
          /\ Logged(Entry("pubkey_serialize", 1))
          /\ \A i \in 1..Len(log) : ~Failing(log[i])

\* generate_keys rejected a candidate, accepted the next, derived its point
\* and failed at the serialization.
C18_Witness ==
    /\ Returned("generate")
    /\ path = "serialize_failed"
    /\ Logged(Entry("seckey_verify", 0))
    /\ Logged(Entry("pubkey_create", 1))
    /\ log[Len(log)] = Entry("context_destroy", 1)

InGenerate == op = "generate" /\ pc \notin {"idle", "done"}

\* C19: under the assumption that the entropy source eventually fails or
\* delivers a candidate that passes the validity check, every call of
\* generate_keys returns, with 0 or with an error code.
C19_GenerateReturns ==
    InGenerate ~> (Returned("generate") /\ ret \in {0, -1, -2, -3, -5})

\* generate_keys returned after it had gone round the loop twice.
C19_Witness ==
    /\ Returned("generate")
    /\ draws = 2
    /\ ret \in {0, -3, -5}

Rejected == Cardinality({i \in 1..Len(log) : log[i] = Entry("seckey_verify", 0)})

\* C20 as stated, with N = MaxDraws: having drawn N candidates,
\* generate_keys does not go back for another, also when every candidate
\* so far was invalid.
C20_BoundedLoop ==
    (op = "generate" /\ pc = "g_draw") => draws < MaxDraws

\* C20 amended: the loop has no bound of its own.  Every rejected candidate
\* sends generate_keys back to draw again, however many were rejected
\* before; it leaves the loop only when a draw fails (-3) or a candidate
\* passes the check, so a call past the loop has made exactly one draw more
\* than it rejected candidates.
C20_LoopUntilValid ==
    op = "generate" =>
        /\ (pc = "g_draw" /\ draws > 0) =>
              /\ log[Len(log)] = Entry("seckey_verify", 0)
              /\ Rejected = draws
              /\ \A i \in 1..Len(drawn) : ~seckey_verify(drawn[i])
        /\ pc \in {"g_pubkey_create", "g_serialize", "g_copy"} =>
              /\ draws = Rejected + 1
              /\ seckey_verify(privkey)
        /\ (pc = "done" /\ draws > 0) =>
              /\ draws = Rejected + 1
              /\ \/ path = "candidate_draw_failed" /\ ret = -3
                 \/ /\ path \in {"pubkey_create_failed", "serialize_failed", "success"}
                    /\ seckey_verify(drawn[Len(drawn)])

\* generate_keys has rejected MaxDraws candidates in a row and is about to
\* draw again.
C20_Witness ==
    /\ op = "generate"
    /\ pc = "g_draw"
    /\ draws = MaxDraws
    /\ Rejected = MaxDraws

Result(t) == [ret |-> thr[t].ret, privbuf |-> thr[t].privbuf, pubbuf |-> thr[t].pubbuf]

\* C13: generate_keys and derive_pubkey calls interleaved statement by
\* statement on separate threads share no mutable state: a context is used
\* only by the call that created it and destroyed once, by that call, and
\* every call returns the code and leaves the output bytes it has when run
\* alone on the same arguments, the same entropy and the same library
\* outcomes.
C13_CallsIndependent ==
    /\ \A i \in 1..Len(heap) : heap[i].users \subseteq {heap[i].owner}
    /\ \A i \in 1..Len(heap) : ~heap[i].obj.misuse /\ heap[i].obj.destroyed <= 1
    /\ \A t \in Threads :
          thr[t].pc = "done" =>
              Result(t) = RunAlone(thr[t].op, thr[t].compressed,
                                   thr[t].priv_before, thr[t].hist, thr[t].fails)

\* Two calls that were in their bodies at the same time have both returned
\* 0: a generate_keys call that rejected a candidate and a derive_pubkey
\* call, each with its own context.
C13_Witness ==
    /\ thr[1].pc = "done" /\ thr[1].op = "generate" /\ thr[1].ret = 0
    /\ Len(thr[1].hist) = 3
    /\ thr[2].pc = "done" /\ thr[2].op = "derive" /\ thr[2].ret = 0
    /\ Len(heap) = 2
    /\ heap[1].owner = 2
    /\ heap[2].owner = 1
    /\ heap[2].obj.destroyed = 1

NotImplemented == fill.res = -1 /\ fill.errno = "ENOSYS"

DeviceTouched == fill.pc \in {"open", "loop"} \/ fill.fd # "none"

\* C21: on the getrandom branch fill_random turns to /dev/urandom exactly
\* when getrandom failed with ENOSYS; after any other error and after a
\* short return it returns 0 and has neither opened nor read the device.
C21_FallbackOnlyOnEnosys ==
    fill.pc \notin {"idle", "getrandom"} =>
        /\ DeviceTouched <=> NotImplemented
        /\ (fill.pc = "returned" /\ ~NotImplemented /\ fill.res # fill.size) =>
              /\ fill.ret = 0
              /\ fill.path = "primary"
              /\ fill.fd = "none"
              /\ fill.off = 0

\* getrandom failed with EAGAIN and fill_random returned 0 at once.
C21_Witness ==
    /\ fill.pc = "returned"
    /\ fill.size = PRIVKEY_SIZE
    /\ fill.res = -1
    /\ fill.errno = "EAGAIN"
    /\ fill.ret = 0
    /\ fill.fd = "none"

ReadLoopSafe ==
    /\ 0 <= fill.off /\ fill.off <= fill.size
    /\ (fill.pc = "loop" /\ fill.off > 0) =>
          /\ fill.r > 0
          /\ fill.r <= fill.off
    /\ (fill.pc = "returned" /\ fill.path = "filled") =>
          /\ fill.ret = 1
          /\ fill.off = fill.size
    /\ (fill.pc = "returned" /\ fill.path = "read_failed") =>
          /\ fill.ret = 0
          /\ fill.r <= 0
          /\ fill.off < fill.size
    /\ (fill.pc = "returned" /\ fill.fd = "closed") =>
          (fill.ret = 1 <=> fill.off = fill.size)

\* C22: the read loop of the fallback keeps 0 <= off <= size, goes on after
\* every partial read with what is left of the request, returns 1 exactly
\* when off has reached size, returns 0 at the first read that gives an
\* error or end of file, and ends whatever the reads return.
C22_ReadLoop ==
    /\ []ReadLoopSafe
    /\ (fill.pc = "loop") ~> (fill.pc = "returned")

\* The buffer was filled by partial reads, the last one of 5 bytes.
C22_Witness ==
    /\ fill.pc = "returned"
    /\ fill.path = "filled"
    /\ fill.size = PRIVKEY_SIZE
    /\ fill.off = PRIVKEY_SIZE
    /\ fill.r = 5
    /\ fill.ret = 1

\* C25: on the fallback path the descriptor of /dev/urandom is closed
\* exactly once before fill_random returns wherever the open succeeded
\* (buffer filled, read error, end of file), and never otherwise, so no
\* descriptor is open after any sequence of fill_random calls.
C25_DescriptorClosed ==
    /\ fill.open_fds = (IF fill.fd = "open" THEN 1 ELSE 0)
    /\ fill.fd = "open" <=> fill.pc = "loop"
    /\ fill.closes = (IF fill.fd = "closed" THEN 1 ELSE 0)
    /\ fill.pc = "returned" =>
          /\ fill.open_fds = 0
          /\ fill.path \in {"filled", "read_failed"} <=> fill.fd = "closed"
          /\ fill.path = "open_failed" <=> fill.fd = "failed"
          /\ fill.path = "primary" <=> fill.fd = "none"

\* The device was opened, 16 bytes were read, the next read returned end of
\* file, and fill_random returned 0 with the descriptor closed.
C25_Witness ==
    /\ fill.pc = "returned"
    /\ fill.path = "read_failed"
    /\ fill.off = 16
    /\ fill.r = 0
    /\ fill.fd = "closed"
    /\ fill.closes = 1
    /\ fill.open_fds = 0

\* C24: whenever generate_keys returns a failure code the caller's
\* privkey_out buffer holds the bytes it held before the call: the key is
\* copied out only after derivation and serialization have both succeeded,
\* and the call that has copied it returns 0.
C24_NoPartialKey ==
    /\ (Returned("generate") /\ ret # 0) => privbuf = priv_before
    /\ (op = "generate" /\ pc \notin {"idle", "done"}) => privbuf = priv_before
    /\ (op = "generate" /\ pc = "g_copy") =>
          /\ Logged(Entry("pubkey_create", 1))
          /\ log[Len(log)] = Entry("pubkey_serialize", 1)
    /\ (Returned("generate") /\ path = "success") =>
          /\ ret = 0
          /\ Logged(Entry("pubkey_serialize", 1))

\* generate_keys failed at the serialization, with a valid candidate in
\* hand, and the caller's buffer still holds the 0x42 bytes put there
\* before the call.
C24_Witness ==
    /\ Returned("generate")
    /\ path = "serialize_failed"
    /\ ret = -5
    /\ priv_before = Key42
    /\ privbuf = Key42

CallsMade == {plat.calls[i] : i \in 1..Len(plat.calls)}

\* C23: fill_random never hands a platform entropy call a truncated or
\* wrapped length.  Every call it makes gets the exact size; reaching
\* BCryptGenRandom with more than ULONG_MAX bytes, or getentropy with more
\* than 256, it returns 0 without making that call; within the limit the
\* call is made with the size as given.
C23_ExactLength ==
    /\ \A c \in CallsMade :
          /\ c.len = plat.size
          /\ c.fn = "BCryptGenRandom" => ~LessThan(ULONG_MAX, plat.size)
          /\ c.fn = "getentropy" => ~LessThan(Size(GETENTROPY_MAX), plat.size)
    /\ (plat.pc = "returned" /\ plat.platform = "windows") =>
          IF LessThan(ULONG_MAX, plat.size)
          THEN plat.ret = 0 /\ plat.calls = <<>>
          ELSE plat.calls = <<Made("BCryptGenRandom", plat.size)>>
    /\ (plat.pc = "returned" /\ plat.platform = "openbsd") =>
          IF LessThan(Size(GETENTROPY_MAX), plat.size)
          THEN plat.ret = 0 /\ plat.calls = <<>>
          ELSE plat.calls = <<Made("getentropy", plat.size)>>
    /\ (plat.pc = "returned" /\ plat.platform \in {"apple", "apple_security"}) =>
          /\ plat.calls # <<>>
          /\ (LessThan(Size(GETENTROPY_MAX), plat.size) /\ plat.ret = 0) =>
                plat.calls[Len(plat.calls)] = Made("CCRandomGenerateBytes", plat.size)
          /\ (~LessThan(Size(GETENTROPY_MAX), plat.size) /\ plat.ret = 0) =>
                plat.calls[Len(plat.calls)] = Made("getentropy", plat.size)

\* On Windows a request of 2^32 + 32 bytes, which the cast would turn into
\* 32, was refused without a call.
C23_Witness ==
    /\ plat.pc = "returned"
    /\ plat.platform = "windows"
    /\ plat.size = Above4G(PRIVKEY_SIZE)
    /\ plat.ret = 0
    /\ plat.calls = <<>>

====
